---------------------------- MODULE Spec2Model ----------------------------
(***************************************************************************)
(* Model of the iterative refinement orchestrator of the AI code review    *)
(* system: the round function refinement_step and its graph loop           *)
(* (controls/recursive_controller.py), the run wrapper                     *)
(* (agents/control_agent.py), the issue reconciler                         *)
(* (agents/error_comparator_agent.py) and the collaborators at their       *)
(* boundary (agents/quality_agent.py, refactor_agent.py, critic_agent.py,  *)
(* optimization_agent.py).                                                 *)
(*                                                                         *)
(* Number representation.  Python floats are modelled in fixed point so    *)
(* that every comparison the code makes is exact:                          *)
(*   - quality scores (0..100) and score thresholds: tenths of a point     *)
(*     (80.5 is 805, the optimisation floor 75 is 750, the convergence     *)
(*     threshold 2.0 is 20);                                               *)
(*   - category weights, severity multipliers, priorities and the          *)
(*     SEVERITY_WEIGHTS table: tenths (2.0 is 20); a weighted issue score  *)
(*     is a sum of products of two of them, hence in hundredths (1.0 is    *)
(*     100);                                                               *)
(*   - confidences: hundredths (0.85 is 85);                               *)
(*   - a text similarity ratio: the exact fraction <<num, den>>.           *)
(* Text (descriptions, code artifacts) is a sequence of one-character      *)
(* strings, so that strip(), lower() and substring search are computed.    *)
(* A Python dict is a TLA+ record whose DOMAIN is the set of keys present. *)
(***************************************************************************)
EXTENDS Integers, Sequences, FiniteSets, TLC

(***************************************************************************)
(* Text primitives                                                         *)
(***************************************************************************)

\* dict.get(key, default)
Get(d, k, default) == IF k \in DOMAIN d THEN d[k] ELSE default

Whitespace == {" ", "\t", "\n"}

RECURSIVE LStrip(_)
LStrip(s) ==
    IF s # <<>> /\ Head(s) \in Whitespace THEN LStrip(Tail(s)) ELSE s

RECURSIVE RStrip(_)
RStrip(s) ==
    IF s # <<>> /\ s[Len(s)] \in Whitespace
    THEN RStrip(SubSeq(s, 1, Len(s) - 1))
    ELSE s

\* str.strip()
Strip(s) == RStrip(LStrip(s))

UpperToLower ==
    [A |-> "a", B |-> "b", C |-> "c", D |-> "d", E |-> "e", F |-> "f",
     G |-> "g", H |-> "h", I |-> "i", J |-> "j", K |-> "k", L |-> "l",
     M |-> "m", N |-> "n", O |-> "o", P |-> "p", Q |-> "q", R |-> "r",
     S |-> "s", T |-> "t", U |-> "u", V |-> "v", W |-> "w", X |-> "x",
     Y |-> "y", Z |-> "z"]

\* str.lower()
Lower(s) ==
    [i \in 1..Len(s) |->
        IF s[i] \in DOMAIN UpperToLower THEN UpperToLower[s[i]] ELSE s[i]]

\* keyword in text
Contains(text, kw) ==
    \E i \in 0..(Len(text) - Len(kw)) : SubSeq(text, i + 1, i + Len(kw)) = kw

SetMax(S) == CHOOSE x \in S : \A y \in S : y <= x

\* The element of a one-element set.  Only({F(v) : v \in {e}}) is F(e) with e
\* evaluated once and named v, as a Python local holds a computed value.
Only(S) == CHOOSE x \in S : TRUE
SetMin(S) == CHOOSE x \in S : \A y \in S : x <= y

(***************************************************************************)
(* difflib.SequenceMatcher(None, a, b).ratio() on texts shorter than the   *)
(* 200 characters at which the autojunk heuristic starts.  Indices are     *)
(* Python's: 0-based, [lo, hi).                                            *)
(***************************************************************************)

\* a[i:i+k] == b[j:j+k]
SameBlock(a, b, i, j, k) == \A d \in 1..k : a[i + d] = b[j + d]

\* find_longest_match: the longest common block; of those the one starting
\* earliest in a, and of those the one starting earliest in b.
CommonBlocks(a, alo, ahi, b, blo, bhi) ==
    {m \in (alo..(ahi - 1)) \X (blo..(bhi - 1)) \X (1..(ahi - alo)) :
        /\ m[1] + m[3] <= ahi
        /\ m[2] + m[3] <= bhi
        /\ SameBlock(a, b, m[1], m[2], m[3])}

LongestSize(blocks) == SetMax({m[3] : m \in blocks})
EarliestInA(blocks, k) == SetMin({m[1] : m \in {x \in blocks : x[3] = k}})
EarliestInB(blocks, k, i) ==
    <<i, SetMin({m[2] : m \in {x \in blocks : x[3] = k /\ x[1] = i}}), k>>

BestBlock(blocks, alo, blo) ==
    IF blocks = {} THEN <<alo, blo, 0>>
    ELSE Only({EarliestInB(blocks, k, i) :
                  k \in {LongestSize(blocks)},
                  i \in {EarliestInA(blocks, LongestSize(blocks))}})

FindLongestMatch(a, alo, ahi, b, blo, bhi) ==
    Only({BestBlock(blocks, alo, blo) : blocks \in {CommonBlocks(a, alo, ahi, b, blo, bhi)}})

\* get_matching_blocks: total size of the matching blocks, found by
\* recursing to the left and to the right of the longest match.
RECURSIVE MatchingSize(_, _, _, _, _, _)
MatchingSizeAround(a, alo, ahi, b, blo, bhi, m) ==
    IF m[3] = 0 THEN 0
    ELSE m[3]
         + MatchingSize(a, alo, m[1], b, blo, m[2])
         + MatchingSize(a, m[1] + m[3], ahi, b, m[2] + m[3], bhi)

MatchingSize(a, alo, ahi, b, blo, bhi) ==
    IF alo >= ahi \/ blo >= bhi THEN 0
    ELSE Only({MatchingSizeAround(a, alo, ahi, b, blo, bhi, m) :
                  m \in {FindLongestMatch(a, alo, ahi, b, blo, bhi)}})

\* ratio(): 2.0 * matches / (len(a) + len(b)), 1.0 when both are empty
SequenceMatcherRatio(a, b) ==
    IF Len(a) + Len(b) = 0 THEN <<1, 1>>
    ELSE <<2 * MatchingSize(a, 0, Len(a), b, 0, Len(b)), Len(a) + Len(b)>>

(***************************************************************************)
(* Issue Reconciler: agents/error_comparator_agent.py                      *)
(***************************************************************************)

ValidSeverities == {"critical", "high", "medium", "low"}

\* IssueComparator.SEVERITY_WEIGHTS, in tenths
SEVERITY_WEIGHTS == [critical |-> 10, high |-> 8, medium |-> 6, low |-> 4]

\* IssueComparator.__init__: similarity_threshold = 0.8, in tenths
similarity_threshold == 8

security_keywords ==
    {<<"s","e","c","u","r","i","t","y">>,
     <<"v","u","l","n","e","r","a","b","i","l","i","t","y">>,
     <<"i","n","j","e","c","t","i","o","n">>,
     <<"x","s","s">>,
     <<"c","s","r","f">>,
     <<"h","a","r","d","c","o","d","e">>}

performance_keywords ==
    {<<"p","e","r","f","o","r","m","a","n","c","e">>,
     <<"s","l","o","w">>,
     <<"i","n","e","f","f","i","c","i","e","n","t">>,
     <<"l","o","o","p">>,
     <<"c","o","m","p","l","e","x","i","t","y">>}

style_keywords ==
    {<<"s","t","y","l","e">>,
     <<"f","o","r","m","a","t","t","i","n","g">>,
     <<"c","o","n","v","e","n","t","i","o","n">>,
     <<"n","a","m","i","n","g">>}

bug_keywords ==
    {<<"b","u","g">>,
     <<"e","r","r","o","r">>,
     <<"e","x","c","e","p","t","i","o","n">>,
     <<"n","u","l","l">>,
     <<"u","n","d","e","f","i","n","e","d">>}

_categorize_issue(description) ==
    LET desc_lower == Lower(description)
    IN  IF \E kw \in security_keywords : Contains(desc_lower, kw) THEN "security"
        ELSE IF \E kw \in performance_keywords : Contains(desc_lower, kw) THEN "performance"
        ELSE IF \E kw \in style_keywords : Contains(desc_lower, kw) THEN "style"
        ELSE IF \E kw \in bug_keywords : Contains(desc_lower, kw) THEN "bug"
        ELSE "general"

\* IssueComparator.calculate_text_similarity: the ratio as <<num, den>>
CleanTextSimilarity(text1_clean, text2_clean) ==
    IF text1_clean = text2_clean THEN <<1, 1>>
    ELSE SequenceMatcherRatio(text1_clean, text2_clean)

calculate_text_similarity(text1, text2) ==
    Only({CleanTextSimilarity(text1_clean, text2_clean) :
             text1_clean \in {Lower(Strip(text1))},
             text2_clean \in {Lower(Strip(text2))}})

\* IssueComparator.are_issues_similar
\* similarity >= self.similarity_threshold
AtLeastThreshold(similarity) ==
    similarity[1] * 10 >= similarity_threshold * similarity[2]

SimilarIgnoringLine(issue1, issue2) ==
    \E similarity \in {calculate_text_similarity(Get(issue1, "description", <<>>),
                                                 Get(issue2, "description", <<>>))} :
        AtLeastThreshold(similarity)

are_issues_similar(issue1, issue2) ==
    IF issue1.line # issue2.line THEN FALSE
    ELSE \E similarity \in {calculate_text_similarity(Get(issue1, "description", <<>>),
                                                      Get(issue2, "description", <<>>))} :
             AtLeastThreshold(similarity)

AdditionalSeparator == <<"."," ","A","d","d","i","t","i","o","n","a","l",":"," ">>

\* The severity a merge keeps (merge_similar_issues, "Choose more severe issue")
MergedSeverityForcedHigh(sev1, sev2) == "high"
MergedSeverity(sev1, sev2) ==
    IF Get(SEVERITY_WEIGHTS, sev1, 6) >= Get(SEVERITY_WEIGHTS, sev2, 6)
    THEN sev1
    ELSE sev2

\* IssueComparator.merge_similar_issues
MergedDescription(desc1, desc2) ==
    IF Lower(desc1) # Lower(desc2)
    THEN desc1 \o AdditionalSeparator \o desc2
    ELSE desc1

merge_similar_issues(issue1, issue2) ==
    LET merged_description ==
            MergedDescription(Strip(Get(issue1, "description", <<>>)),
                              Strip(Get(issue2, "description", <<>>)))
        conf1 == Get(issue1, "confidence", 80)
        conf2 == Get(issue2, "confidence", 80)
        sev1 == Get(issue1, "severity", "medium")
        sev2 == Get(issue2, "severity", "medium")
    IN  [line        |-> issue1.line,
         description |-> merged_description,
         suggestion  |-> IF Get(issue1, "suggestion", "") # ""
                         THEN Get(issue1, "suggestion", "")
                         ELSE Get(issue2, "suggestion", ""),
         source      |-> "Both",
         severity    |-> MergedSeverity(sev1, sev2),
         confidence  |-> IF conf1 >= conf2 THEN conf1 ELSE conf2,
         category    |-> Get(issue1, "category", "general")]

\* compare_issues, "Convert AI issues to standard format"
ProcessAIIssue(issue) ==
    [line        |-> Get(issue, "line", 0),
     description |-> Get(issue, "issue", Get(issue, "description", <<>>)),
     suggestion  |-> Get(issue, "suggestion", ""),
     source      |-> "AI",
     severity    |-> Get(issue, "severity", "medium"),
     confidence  |-> Get(issue, "confidence", 80),
     category    |-> _categorize_issue(Get(issue, "issue", <<>>))]

\* compare_issues, "Convert static issues to standard format"
ProcessStaticIssue(issue) ==
    [line        |-> Get(issue, "line", 0),
     description |-> Get(issue, "issue", <<>>),
     suggestion  |-> Get(issue, "suggestion", ""),
     source      |-> "Static",
     severity    |-> Get(issue, "severity", "medium"),
     confidence  |-> Get(issue, "confidence", 80),
     category    |-> _categorize_issue(Get(issue, "issue", <<>>))]

\* matched_static_indices.add(best_match_idx)
MarkMatchedForgotten(matched, idx) == matched
MarkMatched(matched, idx) == matched \cup {idx}

\* compare_issues, "Find matches between AI and static issues": the loop over
\* processed_ai_issues from position k on; acc holds merged and
\* matched_static_indices.
RECURSIVE MatchAIIssues(_, _, _, _)
\* one AI issue: similar is the set of unmatched static positions similar to it,
\* of which the first is best_match_idx
MatchOne(ai, static, k, acc, similar) ==
    IF similar = {}
    THEN [merged  |-> Append(acc.merged, ai[k]),
          matched |-> acc.matched]
    ELSE Only({[merged  |-> Append(acc.merged,
                                merge_similar_issues(ai[k], static[best_match_idx])),
                matched |-> MarkMatched(acc.matched, best_match_idx)] :
                  best_match_idx \in {SetMin(similar)}})

SimilarUnmatched(ai, static, k, acc) ==
    {idx \in 1..Len(static) :
        /\ idx \notin acc.matched
        /\ are_issues_similar(ai[k], static[idx])}

MatchAIIssues(ai, static, k, acc) ==
    IF k > Len(ai) THEN acc
    ELSE Only({MatchAIIssues(ai, static, k + 1, next) :
                  next \in {Only({MatchOne(ai, static, k, acc, similar) :
                                     similar \in {SimilarUnmatched(ai, static, k, acc)}})}})

\* compare_issues, "Add remaining unmatched static issues"
RECURSIVE UnmatchedStatic(_, _, _)
UnmatchedStatic(static, matched, k) ==
    IF k > Len(static) THEN <<>>
    ELSE (IF k \in matched THEN <<>> ELSE <<static[k]>>)
         \o UnmatchedStatic(static, matched, k + 1)

severity_order == [critical |-> 0, high |-> 1, medium |-> 2, low |-> 3]

\* the sort key of compare_issues: (severity_order.get(severity, 2), line)
MergedSortKey(x) ==
    <<Get(severity_order, Get(x, "severity", "medium"), 2), Get(x, "line", 0)>>

KeyLessOrEqual(k1, k2) == k1[1] < k2[1] \/ (k1[1] = k2[1] /\ k1[2] <= k2[2])
KeyLess(k1, k2) == k1[1] < k2[1] \/ (k1[1] = k2[1] /\ k1[2] < k2[2])

\* list.sort(key=...): stable; x goes after every element whose key is not
\* greater than its own.
RECURSIVE InsertByKey(_, _)
InsertByKey(sorted, x) ==
    IF sorted = <<>> THEN <<x>>
    ELSE IF KeyLess(MergedSortKey(x), MergedSortKey(Head(sorted)))
         THEN <<x>> \o sorted
         ELSE <<Head(sorted)>> \o InsertByKey(Tail(sorted), x)

RECURSIVE SortMerged(_)
SortMerged(seq) ==
    IF seq = <<>> THEN <<>>
    ELSE Only({InsertByKey(sorted, seq[Len(seq)]) :
                  sorted \in {SortMerged(SubSeq(seq, 1, Len(seq) - 1))}})

\* The list compare_issues builds before its statistics and sort
WithUnmatched(acc, processed_static_issues) ==
    acc.merged \o UnmatchedStatic(processed_static_issues, acc.matched, 1)

MergeProcessed(processed_ai_issues, processed_static_issues) ==
    Only({WithUnmatched(acc, processed_static_issues) :
             acc \in {MatchAIIssues(processed_ai_issues, processed_static_issues, 1,
                                    [merged |-> <<>>, matched |-> {}])}})

MergeIssueLists(ai_issue_list, static_issues) ==
    Only({MergeProcessed(processed_ai_issues, processed_static_issues) :
             processed_ai_issues \in
                 {[i \in 1..Len(ai_issue_list) |-> ProcessAIIssue(ai_issue_list[i])]},
             processed_static_issues \in
                 {[i \in 1..Len(static_issues) |-> ProcessStaticIssue(static_issues[i])]}})

\* compare_issues(ai_issues, static_issues).  The statistics loop indexes
\* severity_count by the issue's severity: a severity outside the four keys
\* raises KeyError, reported as raised = TRUE.
SeverityKeyError(merged) ==
    \E i \in 1..Len(merged) : merged[i].severity \notin ValidSeverities

CountAndSort(merged) ==
    IF SeverityKeyError(merged)
    THEN [raised |-> TRUE, issues |-> <<>>]
    ELSE [raised |-> FALSE, issues |-> SortMerged(merged)]

compare_issues(ai_issues, static_issues) ==
    Only({CountAndSort(merged) :
             merged \in {MergeIssueLists(Get(ai_issues, "issues", <<>>), static_issues)}})

(***************************************************************************)
(* Collaborators at their boundary.  Each takes the reply of its external  *)
(* service (the LLM, the prompt file) as an argument and returns           *)
(* [raised, value]: raised = TRUE is an exception leaving the function.    *)
(***************************************************************************)

EmptyDict == <<>>

\* run_quality_agent: the per-issue setdefault calls
QualityIssueDefaults(issue) ==
    LET severity == Get(issue, "severity", "medium")
    IN  [k \in DOMAIN issue \cup {"explanation", "severity", "confidence", "priority"} |->
            IF k \in DOMAIN issue THEN issue[k]
            ELSE IF k = "explanation" THEN "No specific explanation provided by the model."
            ELSE IF k = "severity" THEN "medium"
            ELSE IF k = "confidence" THEN 90
            ELSE IF severity = "high" THEN 8 ELSE 6]

QualityFailureResult == [score |-> 0, issues |-> <<>>]

\* run_quality_agent(code, api_key, context).  reply.kind:
\*   "no_prompt"   prompts/quality_prompt.txt is missing
\*   "api_error"   gemini.generate_content raises: the handler then reads
\*                 response.text with response unbound, which raises
\*   "unparseable" the reply is not JSON
\*   "ok"          reply.result is the parsed JSON object
run_quality_agent(reply) ==
    IF reply.kind = "no_prompt" THEN [raised |-> FALSE, value |-> QualityFailureResult]
    ELSE IF reply.kind = "api_error" THEN [raised |-> TRUE, value |-> QualityFailureResult]
    ELSE IF reply.kind = "unparseable" THEN [raised |-> FALSE, value |-> QualityFailureResult]
    ELSE [raised |-> FALSE,
          value  |-> IF "issues" \in DOMAIN reply.result
                     THEN [reply.result EXCEPT
                              !.issues = [i \in 1..Len(@) |-> QualityIssueDefaults(@[i])]]
                     ELSE reply.result]

\* run_critic_agent: the per-issue setdefault calls
CriticIssueDefaults(issue) ==
    [k \in DOMAIN issue \cup {"severity", "confidence"} |->
        IF k \in DOMAIN issue THEN issue[k]
        ELSE IF k = "severity" THEN "medium"
        ELSE 85]

\* run_critic_agent(code, merged_issues, api_key).  reply.kind: "no_prompt",
\* "api_error", "unparseable" (each returns merged_issues) or "ok" with
\* reply.result the parsed JSON object.
run_critic_agent(merged_issues, reply) ==
    IF reply.kind # "ok" THEN merged_issues
    ELSE IF Get(reply.result, "improved_issues", <<>>) = <<>> THEN merged_issues
    ELSE [i \in 1..Len(reply.result.improved_issues) |->
             CriticIssueDefaults(reply.result.improved_issues[i])]

NoneValue == [is_none |-> TRUE, text |-> <<>>]
Text(t) == [is_none |-> FALSE, text |-> t]

\* run_refactor_agent(original_code, refined_issues, api_key).  reply.kind:
\*   "no_prompt"  open("prompts/refactor_prompt.txt") raises
\*   "api_error"  gemini.generate_content raises
\*   "no_text"    reading response.text raises inside the try: returns None
\*   "ok"         reply.block is the text of the last ```python block
run_refactor_agent(reply) ==
    IF reply.kind \in {"no_prompt", "api_error"} THEN [raised |-> TRUE, value |-> NoneValue]
    ELSE IF reply.kind = "no_text" THEN [raised |-> FALSE, value |-> NoneValue]
    ELSE [raised |-> FALSE, value |-> Text(Strip(reply.block))]

\* run_optimization_agent(code, api_key): [] on every failure, else the
\* parsed list
run_optimization_agent(reply) ==
    IF reply.kind # "ok" THEN <<>> ELSE reply.result

\* "not x or x.strip() == ''" of refinement_step
IsBlank(ret) == ret.is_none \/ ret.text = <<>> \/ Strip(ret.text) = <<>>

(***************************************************************************)
(* Configuration: load_config and the reads of refinement_step             *)
(***************************************************************************)

DefaultIssueWeights ==
    [security |-> 20, bug |-> 15, performance |-> 12, style |-> 8, general |-> 10]

\* the dictionary load_config returns when config.yaml is not found
DefaultConfig ==
    [analysis |->
        [min_score_threshold      |-> 900,
         max_iterations           |-> 5,
         max_high_severity_issues |-> 0,
         stagnation_threshold     |-> 2,
         convergence_threshold    |-> 20,
         issue_weights            |-> DefaultIssueWeights]]

\* load_config(): file.found = FALSE is FileNotFoundError; otherwise
\* file.content is what yaml.safe_load returned ("or {}" for an empty file)
load_config(file) == IF file.found THEN file.content ELSE DefaultConfig

analysis_config(file) == Get(load_config(file), "analysis", EmptyDict)
stagnation_threshold(file) == Get(analysis_config(file), "stagnation_threshold", 2)
convergence_threshold(file) == Get(analysis_config(file), "convergence_threshold", 20)
issue_weights(file) == Get(analysis_config(file), "issue_weights", EmptyDict)

(***************************************************************************)
(* Scoring and convergence: controls/recursive_controller.py               *)
(***************************************************************************)

severity_multiplier == [critical |-> 20, high |-> 15, medium |-> 10, low |-> 5]

\* calculate_weighted_issue_score(issues, weights), in hundredths
RECURSIVE calculate_weighted_issue_score(_, _)
calculate_weighted_issue_score(issues, weights) ==
    IF issues = <<>> THEN 0
    ELSE LET issue == Head(issues)
             category == Get(issue, "category", "general")
             severity == Get(issue, "severity", "medium")
             weight == Get(weights, category, 10)
         IN  weight * Get(severity_multiplier, severity, 10)
             + calculate_weighted_issue_score(Tail(issues), weights)

\* the priority prioritize_issues assigns, in tenths
IssuePriority(severity) == Get([high |-> 10, medium |-> 7, low |-> 4], severity, 5)

\* sorted(..., key=priority, reverse=True): stable, highest priority first
RECURSIVE InsertByPriority(_, _)
InsertByPriority(sorted, x) ==
    IF sorted = <<>> THEN <<x>>
    ELSE IF Get(x, "priority", 5) > Get(Head(sorted), "priority", 5)
         THEN <<x>> \o sorted
         ELSE <<Head(sorted)>> \o InsertByPriority(Tail(sorted), x)

RECURSIVE SortByPriority(_)
SortByPriority(seq) ==
    IF seq = <<>> THEN <<>>
    ELSE Only({InsertByPriority(sorted, seq[Len(seq)]) :
                  sorted \in {SortByPriority(SubSeq(seq, 1, Len(seq) - 1))}})

\* the loop of prioritize_issues: rejected issues are skipped, the others get
\* their priority
RECURSIVE KeepAndRank(_, _)
WithPriority(issue) ==
    [k \in DOMAIN issue \cup {"priority"} |->
        IF k = "priority"
        THEN IssuePriority(Get(issue, "severity", "medium"))
        ELSE issue[k]]

KeepAndRank(issues, rejected_descriptions) ==
    IF issues = <<>> THEN <<>>
    ELSE IF Lower(Strip(Get(Head(issues), "description", <<>>))) \in rejected_descriptions
         THEN KeepAndRank(Tail(issues), rejected_descriptions)
         ELSE <<WithPriority(Head(issues))>>
              \o KeepAndRank(Tail(issues), rejected_descriptions)

\* prioritize_issues(issues, feedback)
prioritize_issues(issues, fb) ==
    Only({SortByPriority(prioritized) :
             prioritized \in
                 {KeepAndRank(issues,
                      {Lower(Strip(fb[i].description)) :
                          i \in {j \in 1..Len(fb) : ~fb[j].accepted}})}})

\* has_converged(scores, threshold)
ScoreRange(recent_scores) == SetMax(recent_scores) - SetMin(recent_scores)

ConvergedAtThreshold(scores, threshold) ==
    IF Len(scores) < 3 THEN FALSE
    ELSE ScoreRange({scores[i] : i \in (Len(scores) - 2)..Len(scores)}) <= threshold

has_converged(scores, threshold) ==
    IF Len(scores) < 3 THEN FALSE
    ELSE ScoreRange({scores[i] : i \in (Len(scores) - 2)..Len(scores)}) < threshold

(***************************************************************************)
(* The static-analysis dispatcher: agents/static_analysis_agent.py         *)
(***************************************************************************)

\* _run_analyzer_safely(analyzer_func, temp_path, analyzer_name): run is what
\* analyzer_func does, [raised, value]
_run_analyzer_safely(run) == IF run.raised THEN <<>> ELSE run.value

\* the key of _deduplicate_issues
DedupKey(issue) == <<Get(issue, "line", 0), Lower(Strip(Get(issue, "issue", <<>>)))>>

KeepDuplicates(issues) == issues

\* _deduplicate_issues(issues): the loop over issues with the set seen
RECURSIVE DedupFrom(_, _, _)
DedupFrom(issues, seen, deduplicated) ==
    IF issues = <<>> THEN deduplicated
    ELSE IF DedupKey(Head(issues)) \in seen
         THEN DedupFrom(Tail(issues), seen, deduplicated)
         ELSE DedupFrom(Tail(issues), seen \cup {DedupKey(Head(issues))},
                        Append(deduplicated, Head(issues)))

_deduplicate_issues(issues) == DedupFrom(issues, {}, <<>>)

\* the order of str on the tool names ("" is the default of x.get("tool", ""))
ToolNameOrder(name) ==
    CASE name = ""           -> 0
      [] name = "bandit"     -> 1
      [] name = "checkstyle" -> 2
      [] name = "eslint"     -> 3
      [] name = "pylint"     -> 4

\* key=lambda x: (x.get("line", 0), x.get("tool", "")) and the order of tuples
LineToolLess(x, y) ==
    \/ Get(x, "line", 0) < Get(y, "line", 0)
    \/ /\ Get(x, "line", 0) = Get(y, "line", 0)
       /\ ToolNameOrder(Get(x, "tool", "")) < ToolNameOrder(Get(y, "tool", ""))

\* all_issues.sort(key=...): stable
RECURSIVE InsertByLineTool(_, _)
InsertByLineTool(sorted, x) ==
    IF sorted = <<>> THEN <<x>>
    ELSE IF LineToolLess(x, Head(sorted))
         THEN <<x>> \o sorted
         ELSE <<Head(sorted)>> \o InsertByLineTool(Tail(sorted), x)

RECURSIVE SortByLineTool(_)
SortByLineTool(seq) ==
    IF seq = <<>> THEN <<>>
    ELSE Only({InsertByLineTool(sorted, seq[Len(seq)]) :
                  sorted \in {SortByLineTool(SubSeq(seq, 1, Len(seq) - 1))}})

(***************************************************************************)
(* State                                                                   *)
(***************************************************************************)

VARIABLES
    \* CodeState: the session state the graph threads through the rounds
    code, iteration, history, continue_, best_code, best_score, best_issues,
    issue_count, issues_fixed, feedback, min_score_threshold,
    max_high_severity_issues, max_iterations, optimization_applied,
    previous_scores, stagnation_count, user_stop,
    \* the environment: config.yaml as load_config finds it
    config_file,
    \* position in the run and the locals of refinement_step
    pc, quality_results, static_results, refined_issues, weighted_issue_score,
    improved, refactor_returned, refactored_code, new_score, new_issues,
    high_severity_count, final_code, optimization_suggestions,
    \* the stop reason refinement_step prints
    stop_reason,
    \* what _run_iterative_refinement and run_control_agent hand back
    results, returned_code,
    \* one call of compare_issues on its own: inputs and output
    cmp_ai_issues, cmp_static_issues, cmp_output,
    \* one call of has_converged on its own: arguments and return value
    hc_scores, hc_threshold, hc_output,
    \* one call of prioritize_issues on its own: arguments and return value
    pr_issues, pr_feedback, pr_output,
    \* one call of run_static_analysis from the submission of the workers on:
    \* the analyzers and what each will return, the futures, the log of the
    \* collection loop, all_issues, and the return value
    sa_analyzers, sa_futures, sa_collected, sa_all_issues, sa_output

sessionVars ==
    <<code, iteration, history, continue_, best_code, best_score, best_issues,
      issue_count, issues_fixed, feedback, min_score_threshold,
      max_high_severity_issues, max_iterations, optimization_applied,
      previous_scores, stagnation_count, user_stop>>

localVars ==
    <<quality_results, static_results, refined_issues, weighted_issue_score,
      improved, refactor_returned, refactored_code, new_score, new_issues,
      high_severity_count, final_code, optimization_suggestions>>

outputVars == <<results, returned_code>>

hcVars == <<hc_scores, hc_threshold, hc_output>>

prVars == <<pr_issues, pr_feedback, pr_output>>

saVars == <<sa_analyzers, sa_futures, sa_collected, sa_all_issues, sa_output>>

cmpVars == <<cmp_ai_issues, cmp_static_issues, cmp_output, hcVars, prVars, saVars>>

vars == <<sessionVars, config_file, pc, localVars, stop_reason, outputVars, cmpVars>>

(***************************************************************************)
(* Bounds and input pools                                                  *)
(***************************************************************************)

\* largest max_iterations a run is started with
MaxIterations == 4

\* longest analyzer output given to compare_issues on its own
MaxIssues == 2

\* AnalysisConfig.min_quality_threshold = 80, in tenths
DefaultMinQualityThreshold == 800

\* the optimisation gate's score floor, 75, in tenths
OptimizationScoreFloor == 750

\* the weighted-score bar of the quality-threshold stop, 1.0, in hundredths
WeightedScoreBar == 100

\* the score of the initial analysis (79.0)
InitialScore == 790

\* descriptions
DescXss    == <<"x","s","s">>
DescXs     == <<"X","s"," ">>
DescBug    == <<"b","u","g">>
DescBugs   == <<"b","u","g","s">>
DescStyle  == <<"s","t","y","l","e">>
DescStyleU == <<" ","S","t","y","l","e">>
DescSlow   == <<"s","l","o","w">>

\* findings of the quality analyzer as the LLM writes them
RawCritical == [line |-> 1, issue |-> DescXss, suggestion |-> "escape", severity |-> "critical"]
RawHigh     == [line |-> 2, issue |-> DescBug, suggestion |-> "", severity |-> "high"]
RawLowStyle == [line |-> 3, issue |-> DescStyle, suggestion |-> "rename",
                severity |-> "low", confidence |-> 70]

\* findings of the static tools (run_pylint, run_bandit)
StaticLowStyle ==
    [tool |-> "pylint", line |-> 3, issue |-> DescStyleU, suggestion |-> "Fix style",
     severity |-> "low", confidence |-> 80, rule |-> "C0103"]
StaticHighBugs ==
    [tool |-> "bandit", line |-> 2, issue |-> DescBugs, suggestion |-> "Security fix needed: B101",
     severity |-> "high", confidence |-> 90, rule |-> "B101"]

\* a finding as the critic rewrites it: no severity, no category
CriticIssue == [line |-> 3, description |-> DescSlow, suggestion |-> "cache"]

QualityOk(score, issues) == [kind |-> "ok", result |-> [score |-> score, issues |-> issues]]

\* replies to the quality analyzer's call on the current code
AnalyzeReplies ==
    {[kind |-> "api_error"],
     QualityOk(790, <<RawHigh, RawLowStyle>>),
     QualityOk(800, <<RawLowStyle>>)}

\* replies to the quality analyzer's call on the candidate
ReevaluateReplies ==
    {[kind |-> "api_error"],
     [kind |-> "unparseable"],
     QualityOk(790, <<RawHigh, RawLowStyle>>),
     QualityOk(790, <<RawLowStyle>>),
     QualityOk(800, <<RawCritical>>),
     QualityOk(800, <<>>)}

StaticOutputs == {<<>>, <<StaticLowStyle>>}

CriticReplies ==
    {[kind |-> "unparseable"],
     [kind |-> "ok", result |-> [improved_issues |-> <<CriticIssue>>]]}

\* code artifacts
OriginalCode   == <<"c">>
FirstFixCode   == <<"r">>
RefactoredText == <<"f"," ">>
OptimizedText  == <<"o">>

RefactorReplies ==
    {[kind |-> "api_error"], [kind |-> "ok", block |-> <<>>],
     [kind |-> "ok", block |-> RefactoredText]}

OptimizedReplies ==
    {[kind |-> "api_error"], [kind |-> "ok", block |-> <<" ">>],
     [kind |-> "ok", block |-> OptimizedText]}

Suggestion == [line |-> 1, description |-> DescSlow, suggestion |-> "cache"]

OptimizationReplies == {[kind |-> "unparseable"], [kind |-> "ok", result |-> <<Suggestion>>]}

\* config.yaml: absent, or present with a stagnation threshold and no weights
ConfigFiles ==
    {[found |-> FALSE, content |-> EmptyDict],
     [found |-> TRUE, content |-> [analysis |-> [stagnation_threshold |-> 3]]]}

\* the issues of the initial analysis, as compare_issues returned them
InitialRefinedIssues ==
    compare_issues([score |-> InitialScore, issues |-> <<RawHigh, RawLowStyle>>], <<>>).issues

\* apply_fixes: one entry per issue with the user's answer
FeedbackFor(issues, answers) ==
    [i \in 1..Len(issues) |->
        [line |-> issues[i].line, description |-> issues[i].description,
         accepted |-> answers[i]]]

InitialAnswers == {<<TRUE, TRUE>>, <<TRUE, FALSE>>}

NoStop == [reason |-> "", detail |-> <<>>]

(***************************************************************************)
(* Init: the state _run_iterative_refinement passes to graph.invoke        *)
(***************************************************************************)

LocalsCleared ==
    /\ quality_results = QualityFailureResult
    /\ static_results = <<>>
    /\ refined_issues = <<>>
    /\ weighted_issue_score = 0
    /\ improved = FALSE
    /\ refactor_returned = NoneValue
    /\ refactored_code = <<>>
    /\ new_score = 0
    /\ new_issues = <<>>
    /\ high_severity_count = 0
    /\ final_code = <<>>
    /\ optimization_suggestions = <<>>

ClearLocals ==
    /\ quality_results' = QualityFailureResult
    /\ static_results' = <<>>
    /\ refined_issues' = <<>>
    /\ weighted_issue_score' = 0
    /\ improved' = FALSE
    /\ refactor_returned' = NoneValue
    /\ refactored_code' = <<>>
    /\ new_score' = 0
    /\ new_issues' = <<>>
    /\ high_severity_count' = 0
    /\ final_code' = <<>>
    /\ optimization_suggestions' = <<>>

NoResults == [status |-> "pending"]

NotCalled == [called |-> FALSE, raised |-> FALSE, merged |-> <<>>, issues |-> <<>>]

NoValue == [called |-> FALSE]

HcIdle ==
    /\ hc_scores = <<>>
    /\ hc_threshold = 0
    /\ hc_output = NoValue

PrIdle ==
    /\ pr_issues = <<>>
    /\ pr_feedback = <<>>
    /\ pr_output = NoValue

SaIdle ==
    /\ sa_analyzers = <<>>
    /\ sa_futures = <<>>
    /\ sa_collected = <<>>
    /\ sa_all_issues = <<>>
    /\ sa_output = NoValue

CmpIdle ==
    /\ cmp_ai_issues = QualityFailureResult
    /\ cmp_static_issues = <<>>
    /\ cmp_output = NotCalled
    /\ HcIdle
    /\ PrIdle
    /\ SaIdle

SessionInit ==
    /\ code = FirstFixCode
    /\ iteration = 0
    /\ history = <<>>
    /\ continue_ = TRUE
    /\ best_code = OriginalCode
    /\ best_score = InitialScore
    /\ best_issues = InitialRefinedIssues
    /\ issue_count = Len(best_issues)
    /\ issues_fixed = 0
    /\ feedback \in {FeedbackFor(best_issues, a) : a \in InitialAnswers}
    /\ min_score_threshold = DefaultMinQualityThreshold
    /\ max_high_severity_issues = 0
    /\ max_iterations \in 1..MaxIterations
    /\ optimization_applied = FALSE
    /\ previous_scores = <<>>
    /\ stagnation_count = 0
    /\ user_stop \in BOOLEAN
    /\ config_file \in ConfigFiles
    /\ LocalsCleared
    /\ stop_reason = NoStop
    /\ results = NoResults
    /\ returned_code = NoneValue

Init ==
    /\ SessionInit
    /\ pc = "Analyzing"
    /\ CmpIdle

(***************************************************************************)
(* refinement_step, phase by phase.  A phase that a collaborator leaves    *)
(* by an exception ends the graph run: pc = "Raised".                      *)
(***************************************************************************)

\* the exception unwinds refinement_step: its locals are gone, the state
\* dictionary passed in is as the last completed round left it
Raise ==
    /\ pc' = "Raised"
    /\ ClearLocals
    /\ UNCHANGED <<sessionVars, config_file, stop_reason, outputVars, cmpVars>>

\* Analyzing (lines 118-128): the quality analyzer and the static dispatcher
\* run on the current code
Analyzed(q, static) ==
    IF q.raised THEN Raise
    ELSE /\ quality_results' = q.value
         /\ static_results' = static
         /\ pc' = "Reconciling"
         /\ UNCHANGED <<sessionVars, config_file, refined_issues,
                        weighted_issue_score, improved, refactor_returned,
                        refactored_code, new_score, new_issues,
                        high_severity_count, final_code,
                        optimization_suggestions, stop_reason,
                        outputVars, cmpVars>>

Analyze ==
    /\ pc = "Analyzing"
    /\ \E qreply \in AnalyzeReplies, static \in StaticOutputs :
          \E q \in {run_quality_agent(qreply)} : Analyzed(q, static)

\* current_score = quality_results.get("score", 0)
current_score == Get(quality_results, "score", 0)

\* improved = len(previous_scores) > 1 and current_score > previous_scores[-2],
\* evaluated after the append
IsImproved(scores) ==
    Len(scores) > 1 /\ scores[Len(scores)] > scores[Len(scores) - 1]

\* Reconciling (lines 131-140): compare, critic, prioritize, weighted score,
\* score history and stagnation counter
Reconciled(refined, scores) ==
    /\ refined_issues' = refined
    /\ weighted_issue_score' =
           calculate_weighted_issue_score(refined, issue_weights(config_file))
    /\ previous_scores' = scores
    /\ improved' = IsImproved(scores)
    /\ stagnation_count' = IF IsImproved(scores) THEN 0 ELSE stagnation_count + 1
    /\ pc' = "Refactoring"
    /\ UNCHANGED <<code, iteration, history, continue_, best_code,
                   best_score, best_issues, issue_count, issues_fixed,
                   feedback, min_score_threshold,
                   max_high_severity_issues, max_iterations,
                   optimization_applied, user_stop, config_file,
                   quality_results, static_results, refactor_returned,
                   refactored_code, new_score, new_issues,
                   high_severity_count, final_code,
                   optimization_suggestions, stop_reason,
                   outputVars, cmpVars>>

Compared(merged, creply) ==
    IF merged.raised THEN Raise
    ELSE \E refined \in {prioritize_issues(run_critic_agent(merged.issues, creply), feedback)},
            scores \in {Append(previous_scores, current_score)} :
             Reconciled(refined, scores)

Reconcile ==
    /\ pc = "Reconciling"
    /\ \E creply \in CriticReplies :
          \E merged \in {compare_issues(quality_results, static_results)} :
             Compared(merged, creply)

\* the fallback of lines 146-148 and 176-177: a blank result keeps the code
\* the transformer was given
FallbackIgnored(ret, given) == IF ret.is_none THEN given ELSE ret.text
CodeAfterTransformer(ret, given) == IF IsBlank(ret) THEN given ELSE ret.text

RefactorFrame ==
    UNCHANGED <<sessionVars, config_file, quality_results, static_results,
                refined_issues, weighted_issue_score, improved, new_score,
                new_issues, high_severity_count, final_code,
                optimization_suggestions, stop_reason, outputVars, cmpVars>>

Refactored(r) ==
    IF r.raised THEN Raise
    ELSE /\ refactor_returned' = r.value
         /\ refactored_code' = CodeAfterTransformer(r.value, code)
         /\ pc' = "Reevaluating"
         /\ RefactorFrame

\* Refactoring (lines 142-148)
Refactor ==
    /\ pc = "Refactoring"
    /\ IF refined_issues = <<>>
       THEN /\ refactored_code' = code
            /\ refactor_returned' = NoneValue
            /\ pc' = "Reevaluating"
            /\ RefactorFrame
       ELSE \E reply \in RefactorReplies :
               \E r \in {run_refactor_agent(reply)} : Refactored(r)

\* high_severity_count = len([i for i in new_issues if i.get("severity") == "high"])
HighSeverityCount(issues) ==
    Cardinality({i \in 1..Len(issues) : Get(issues[i], "severity", "") = "high"})

\* the gate of lines 158-161
GateIgnoringApplied(applied, high_count, n_new, n_refined, score) ==
    /\ high_count <= max_high_severity_issues
    /\ n_new <= n_refined \div 2
    /\ score >= OptimizationScoreFloor
OptimizationGate(applied, high_count, n_new, n_refined, score) ==
    /\ ~applied
    /\ high_count <= max_high_severity_issues
    /\ n_new <= n_refined \div 2
    /\ score >= OptimizationScoreFloor

\* Reevaluating (lines 150-161): the quality analyzer runs on the candidate
Measured(score, issues, high) ==
    /\ new_score' = score
    /\ new_issues' = issues
    /\ high_severity_count' = high
    /\ final_code' = refactored_code
    /\ optimization_suggestions' = <<>>
    /\ pc' = IF OptimizationGate(optimization_applied, high, Len(issues),
                                 Len(refined_issues), score)
             THEN "Optimizing"
             ELSE "Deciding"
    /\ UNCHANGED <<sessionVars, config_file, quality_results,
                   static_results, refined_issues, weighted_issue_score,
                   improved, refactor_returned, refactored_code,
                   stop_reason, outputVars, cmpVars>>

Reevaluated(q) ==
    IF q.raised THEN Raise
    ELSE Measured(Get(q.value, "score", current_score),
                  Get(q.value, "issues", <<>>),
                  HighSeverityCount(Get(q.value, "issues", <<>>)))

Reevaluate ==
    /\ pc = "Reevaluating"
    /\ \E qreply \in ReevaluateReplies :
          \E q \in {run_quality_agent(qreply)} : Reevaluated(q)

OptimizeFrame ==
    UNCHANGED <<code, iteration, history, continue_, best_code, best_score,
                best_issues, issue_count, issues_fixed, feedback,
                min_score_threshold, max_high_severity_issues, max_iterations,
                previous_scores, stagnation_count, user_stop, config_file,
                quality_results, static_results, refined_issues,
                weighted_issue_score, improved, refactor_returned, refactored_code,
                new_score, new_issues, high_severity_count, stop_reason,
                outputVars, cmpVars>>

\* the optimization sub-pass (lines 162-179)
Optimized(suggestions, r) ==
    IF r.raised THEN Raise
    ELSE /\ optimization_suggestions' = suggestions
         /\ final_code' = CodeAfterTransformer(r.value, refactored_code)
         /\ optimization_applied' = (optimization_applied \/ ~IsBlank(r.value))
         /\ pc' = "Deciding"
         /\ OptimizeFrame

Suggested(suggestions) ==
    IF suggestions = <<>>
    THEN /\ optimization_suggestions' = suggestions
         /\ UNCHANGED <<final_code, optimization_applied>>
         /\ pc' = "Deciding"
         /\ OptimizeFrame
    ELSE \E reply \in OptimizedReplies :
            \E r \in {run_refactor_agent(reply)} : Optimized(suggestions, r)

Optimize ==
    /\ pc = "Optimizing"
    /\ \E oreply \in OptimizationReplies :
          \E suggestions \in {run_optimization_agent(oreply)} : Suggested(suggestions)

\* the test of line 184
BestAlwaysReplaced == TRUE
BestOnTieToo == new_score >= best_score
IsNewBest ==
    \/ new_score > best_score
    \/ (new_score = best_score /\ Len(new_issues) < Len(best_issues))

RecordNumberedFromZero ==
    [iteration                      |-> iteration,
     score                          |-> new_score,
     issue_count                    |-> Len(new_issues),
     issues_fixed                   |-> 0,
     high_severity_count            |-> high_severity_count,
     improved                       |-> improved,
     optimization_applied           |-> optimization_applied,
     optimization_suggestions_count |-> Len(optimization_suggestions),
     weighted_issue_score           |-> weighted_issue_score]

\* iteration_record (lines 190-201)
iteration_record ==
    LET n_fixed == Len(refined_issues) - Len(new_issues)
    IN  [iteration                      |-> iteration + 1,
         score                          |-> new_score,
         issue_count                    |-> Len(new_issues),
         issues_fixed                   |-> IF n_fixed > 0 THEN n_fixed ELSE 0,
         high_severity_count            |-> high_severity_count,
         improved                       |-> improved,
         optimization_applied           |-> optimization_applied,
         optimization_suggestions_count |-> Len(optimization_suggestions),
         weighted_issue_score           |-> weighted_issue_score]

ReasonUserStop == [reason |-> "User requested stop", detail |-> <<>>]
ReasonMaxIterations(n) == [reason |-> "Reached maximum iterations", detail |-> <<n>>]
ReasonNoIssues == [reason |-> "No issues remaining", detail |-> <<>>]
ReasonThreshold(score, weighted) ==
    [reason |-> "Quality threshold reached", detail |-> <<score, weighted>>]
ReasonStagnation(n) == [reason |-> "No improvement for iterations", detail |-> <<n>>]
ReasonConverged == [reason |-> "Quality scores have converged", detail |-> <<>>]

\* iteration + 1 >= max_iterations (line 209)
MaxIterationsExceeded(iter, max) == iter + 1 > max
MaxIterationsReached(iter, max) == iter + 1 >= max

\* the conditions of the if/elif chain of lines 204-223, in the order written
StopConditions ==
    <<[holds  |-> user_stop,
       reason |-> ReasonUserStop],
      [holds  |-> MaxIterationsReached(iteration, max_iterations),
       reason |-> ReasonMaxIterations(max_iterations)],
      [holds  |-> Len(new_issues) = 0,
       reason |-> ReasonNoIssues],
      [holds  |-> /\ new_score >= min_score_threshold
                  /\ high_severity_count <= max_high_severity_issues
                  /\ weighted_issue_score < WeightedScoreBar,
       reason |-> ReasonThreshold(new_score, weighted_issue_score)],
      [holds  |-> stagnation_count >= stagnation_threshold(config_file),
       reason |-> ReasonStagnation(stagnation_threshold(config_file))],
      [holds  |-> has_converged(previous_scores, convergence_threshold(config_file)),
       reason |-> ReasonConverged]>>

\* if/elif: the first branch whose condition holds is taken; none leaves
\* stop_reason = None
RECURSIVE LastHolding(_)
LastHolding(conds) ==
    IF conds = <<>> THEN NoStop
    ELSE IF conds[Len(conds)].holds THEN conds[Len(conds)].reason
    ELSE LastHolding(SubSeq(conds, 1, Len(conds) - 1))

RECURSIVE FirstHolding(_)
FirstHolding(conds) ==
    IF conds = <<>> THEN NoStop
    ELSE IF Head(conds).holds THEN Head(conds).reason
    ELSE FirstHolding(Tail(conds))

StopReasonSkippingUserStop == FirstHolding(Tail(StopConditions))
StopReason == FirstHolding(StopConditions)

\* DecidingContinuation (lines 181-248): best-so-far, the round record, the
\* stop decision and the state the node returns
Decide ==
    /\ pc = "Deciding"
    /\ best_code' = IF IsNewBest THEN final_code ELSE best_code
    /\ best_score' = IF IsNewBest THEN new_score ELSE best_score
    /\ best_issues' = IF IsNewBest THEN new_issues ELSE best_issues
    /\ history' = Append(history, iteration_record)
    /\ issues_fixed' = history'[Len(history')].issues_fixed
    /\ stop_reason' = StopReason
    /\ continue_' = (stop_reason' = NoStop)
    /\ code' = final_code
    /\ iteration' = iteration + 1
    /\ issue_count' = Len(new_issues)
    /\ pc' = "Routing"
    /\ UNCHANGED <<feedback, min_score_threshold, max_high_severity_issues,
                   max_iterations, optimization_applied, previous_scores,
                   stagnation_count, user_stop, config_file, localVars,
                   outputVars, cmpVars>>

\* should_continue and the conditional edge: "refine" or "__end__"; the
\* locals of the finished call are gone
EdgeNeverEnds(state_continue) == IF state_continue THEN "Analyzing" ELSE "Routing"
ConditionalEdge(state_continue) == IF state_continue THEN "Analyzing" ELSE "Terminated"

should_continue ==
    /\ pc = "Routing"
    /\ pc' = ConditionalEdge(continue_)
    /\ ClearLocals
    /\ UNCHANGED <<sessionVars, config_file, stop_reason, outputVars, cmpVars>>

\* the dictionary refinement_step returns (lines 228-248), which graph.invoke
\* hands back as final_state; api_key and context pass through unchanged
final_state ==
    [code                     |-> code,
     api_key                  |-> "api_key",
     iteration                |-> iteration,
     history                  |-> history,
     continue_                |-> continue_,
     best_code                |-> best_code,
     best_score               |-> best_score,
     best_issues              |-> best_issues,
     issue_count              |-> issue_count,
     issues_fixed             |-> issues_fixed,
     feedback                 |-> feedback,
     min_score_threshold      |-> min_score_threshold,
     max_high_severity_issues |-> max_high_severity_issues,
     max_iterations           |-> max_iterations,
     context                  |-> "context",
     optimization_applied     |-> optimization_applied,
     previous_scores          |-> previous_scores,
     stagnation_count         |-> stagnation_count,
     user_stop                |-> user_stop]

RECURSIVE SumIssuesFixed(_)
SumIssuesFixed(h) ==
    IF h = <<>> THEN 0 ELSE Get(Head(h), "issues_fixed", 0) + SumIssuesFixed(Tail(h))

\* _run_iterative_refinement after graph.invoke (lines 264-285) and
\* run_control_agent's return of results.final_code
ReturnResults ==
    /\ pc = "Terminated"
    /\ results.status = "pending"
    /\ results' =
          [status               |-> "returned",
           final_score          |-> Get(final_state, "best_score", 0),
           total_issues_found   |-> Len(InitialRefinedIssues),
           issues_resolved      |-> SumIssuesFixed(Get(final_state, "history", <<>>)),
           iterations_performed |-> Len(Get(final_state, "history", <<>>)),
           final_code           |-> Get(final_state, "best_code", OriginalCode),
           analysis_summary     |-> [final_state |-> final_state]]
    /\ returned_code' = Text(Get(final_state, "best_code", OriginalCode))
    /\ UNCHANGED <<sessionVars, config_file, pc, localVars, stop_reason, cmpVars>>

\* run_control_agent's except clause: the exception is logged, None returned
ReturnNone ==
    /\ pc = "Raised"
    /\ results.status = "pending"
    /\ results' = [status |-> "failed"]
    /\ returned_code' = NoneValue
    /\ UNCHANGED <<sessionVars, config_file, pc, localVars, stop_reason, cmpVars>>

Next ==
    \/ Analyze
    \/ Reconcile
    \/ Refactor
    \/ Reevaluate
    \/ Optimize
    \/ Decide
    \/ should_continue
    \/ ReturnResults
    \/ ReturnNone

Spec == Init /\ [][Next]_vars

\* The run is one thread: graph.invoke executes the next step as long as there
\* is one, and every collaborator call returns or raises.  The runs start
\* without config.yaml and with every initial fix accepted.
FairInit ==
    /\ Init
    /\ ~config_file.found
    /\ \A i \in 1..Len(feedback) : feedback[i].accepted

FairSpec == FairInit /\ [][Next]_vars /\ WF_vars(Next)

(***************************************************************************)
(* compare_issues on its own: the reconciler applied to analyzer outputs   *)
(* of up to MaxIssues findings each.                                       *)
(***************************************************************************)

\* raw findings of the quality analyzer: complete, without line and severity,
\* with a severity outside the four names, a repeated finding
AIIssuePool ==
    {RawCritical, RawHigh, RawLowStyle,
     [issue |-> DescXs, suggestion |-> "sanitize"],
     [line |-> 2, issue |-> DescBug, severity |-> "urgent"]}

\* raw findings of the static tools: close to an LLM finding of their line
\* (lines 3, 2, 3, 0) or, on line 1, equal to an LLM finding of line 2 and
\* unlike the one of line 1
StaticIssuePool ==
    {StaticLowStyle, StaticHighBugs,
     [tool |-> "bandit", line |-> 1, issue |-> DescBug, severity |-> "low", confidence |-> 90],
     [tool |-> "pylint", line |-> 3, issue |-> DescStyle, severity |-> "high"],
     [tool |-> "pylint", issue |-> DescXss]}

SeqsUpTo(S, n) == UNION {[1..k -> S] : k \in 0..n}

\* the orchestrator is not running: its variables rest in one initial session
ReconcileInit ==
    /\ SessionInit
    /\ max_iterations = 1
    /\ ~user_stop
    /\ ~config_file.found
    /\ \A i \in 1..Len(feedback) : feedback[i].accepted
    /\ pc = "Comparing"
    /\ cmp_ai_issues \in {[score |-> InitialScore, issues |-> l] : l \in SeqsUpTo(AIIssuePool, MaxIssues)}
    /\ cmp_static_issues \in SeqsUpTo(StaticIssuePool, MaxIssues)
    /\ cmp_output = NotCalled
    /\ HcIdle
    /\ PrIdle
    /\ SaIdle

\* what the call leaves: the list built by lines 96-152 and the return value
\* (compare_issues is CountAndSort of that list; it is built once here)
Returned(merged, result) ==
    [called |-> TRUE, raised |-> result.raised, merged |-> merged, issues |-> result.issues]

CompareIssues ==
    /\ pc = "Comparing"
    /\ ~cmp_output.called
    /\ \E merged \in {MergeIssueLists(Get(cmp_ai_issues, "issues", <<>>), cmp_static_issues)} :
          cmp_output' = Returned(merged, CountAndSort(merged))
    /\ UNCHANGED <<sessionVars, config_file, pc, localVars, stop_reason, outputVars,
                   cmp_ai_issues, cmp_static_issues, hcVars, prVars, saVars>>

ReconcileNext == CompareIssues

ReconcileSpec == ReconcileInit /\ [][ReconcileNext]_vars

(***************************************************************************)
(* has_converged on its own: applied to score histories of up to MaxScores *)
(* entries.                                                                *)
(***************************************************************************)

\* longest score history given to has_converged on its own
MaxScores == 4

\* quality scores, in tenths: 50, 70, 80, 80.2, 80.5, 81, 90
ScorePool == {500, 700, 800, 802, 805, 810, 900}

\* convergence thresholds, in tenths: the default 2.0 and 1.0
ThresholdPool == {20, 10}

\* the orchestrator and the reconciler are not running
AtRest ==
    /\ SessionInit
    /\ max_iterations = 1
    /\ ~user_stop
    /\ ~config_file.found
    /\ \A i \in 1..Len(feedback) : feedback[i].accepted
    /\ cmp_ai_issues = QualityFailureResult
    /\ cmp_static_issues = <<>>
    /\ cmp_output = NotCalled

ConvergeInit ==
    /\ AtRest
    /\ pc = "Converging"
    /\ hc_scores \in SeqsUpTo(ScorePool, MaxScores)
    /\ hc_threshold \in ThresholdPool
    /\ hc_output = NoValue
    /\ PrIdle
    /\ SaIdle

HasConverged ==
    /\ pc = "Converging"
    /\ ~hc_output.called
    /\ hc_output' = [called |-> TRUE, value |-> has_converged(hc_scores, hc_threshold)]
    /\ UNCHANGED <<sessionVars, config_file, pc, localVars, stop_reason, outputVars,
                   cmp_ai_issues, cmp_static_issues, cmp_output, hc_scores, hc_threshold,
                   prVars, saVars>>

ConvergeNext == HasConverged

ConvergeSpec == ConvergeInit /\ [][ConvergeNext]_vars

(***************************************************************************)
(* prioritize_issues on its own: applied to issue lists of up to           *)
(* MaxPrioritized issues and to the feedback of an earlier session.        *)
(***************************************************************************)

\* longest issue list given to prioritize_issues on its own
MaxPrioritized == 3

\* issues as the critic hands them over: one of each severity name and one
\* without a severity
PrioritizedPool ==
    {[line |-> 1, description |-> DescXss, suggestion |-> "escape", severity |-> "critical"],
     [line |-> 2, description |-> DescBug, suggestion |-> "", severity |-> "high"],
     [line |-> 2, description |-> DescBugs, suggestion |-> "", severity |-> "medium"],
     [line |-> 3, description |-> DescStyle, suggestion |-> "rename", severity |-> "low"],
     CriticIssue}

\* session feedback: none, one rejection, an acceptance and a rejection
FeedbackPool ==
    {<<>>,
     <<[line |-> 3, description |-> DescStyleU, accepted |-> FALSE]>>,
     <<[line |-> 2, description |-> DescBug, accepted |-> TRUE],
       [line |-> 3, description |-> DescSlow, accepted |-> FALSE]>>}

PrioritizeInit ==
    /\ AtRest
    /\ HcIdle
    /\ pc = "Prioritizing"
    /\ pr_issues \in SeqsUpTo(PrioritizedPool, MaxPrioritized)
    /\ pr_feedback \in FeedbackPool
    /\ pr_output = NoValue
    /\ SaIdle

PrioritizeIssues ==
    /\ pc = "Prioritizing"
    /\ ~pr_output.called
    /\ pr_output' = [called |-> TRUE, value |-> prioritize_issues(pr_issues, pr_feedback)]
    /\ UNCHANGED <<sessionVars, config_file, pc, localVars, stop_reason, outputVars,
                   cmp_ai_issues, cmp_static_issues, cmp_output, hcVars,
                   pr_issues, pr_feedback, saVars>>

PrioritizeNext == PrioritizeIssues

PrioritizeSpec == PrioritizeInit /\ [][PrioritizeNext]_vars

(***************************************************************************)
(* run_static_analysis on its own, from the worker pool on: one worker per *)
(* available analyzer, the collection loop, deduplication and sort.        *)
(***************************************************************************)

\* further findings of the tools: pylint findings on bandit's line and on the
\* line of another pylint finding, a bandit finding with the line and
\* (normalized) description of a pylint finding
PylintSlow == [tool |-> "pylint", line |-> 3, issue |-> DescSlow, suggestion |-> "Fix issue",
               severity |-> "medium", confidence |-> 80, rule |-> "R1702"]
PylintBug == [tool |-> "pylint", line |-> 2, issue |-> DescBug, suggestion |-> "Fix issue",
              severity |-> "high", confidence |-> 80, rule |-> "E0602"]
BanditStyle == [tool |-> "bandit", line |-> 3, issue |-> DescStyle,
                suggestion |-> "Security fix needed: B105", severity |-> "high",
                confidence |-> 60, rule |-> "B105"]

\* what an analyzer function does: it raises, or returns its list (empty when
\* the tool failed, timed out or printed nothing it could parse)
AnalyzerRaises == [raised |-> TRUE, value |-> <<>>]
AnalyzerReturns(issues) == [raised |-> FALSE, value |-> issues]

PylintRuns ==
    {AnalyzerRaises, AnalyzerReturns(<<>>),
     AnalyzerReturns(<<StaticLowStyle, PylintBug>>),
     AnalyzerReturns(<<PylintSlow, StaticLowStyle, PylintSlow>>)}

BanditRuns ==
    {AnalyzerRaises, AnalyzerReturns(<<StaticHighBugs>>),
     AnalyzerReturns(<<BanditStyle, StaticHighBugs>>)}

\* _get_analyzers_for_language("Python", available_tools), in insertion order
AnalyzerLists ==
    {<<>>}
    \cup {<<[name |-> "pylint", run |-> p]>> : p \in PylintRuns}
    \cup {<<[name |-> "bandit", run |-> b]>> : b \in BanditRuns}
    \cup {<<[name |-> "pylint", run |-> p], [name |-> "bandit", run |-> b]>> :
              p \in PylintRuns, b \in BanditRuns}

DispatchInit ==
    /\ AtRest
    /\ HcIdle
    /\ PrIdle
    /\ pc = "Dispatching"
    /\ sa_analyzers \in AnalyzerLists
    /\ sa_futures = <<>>
    /\ sa_collected = <<>>
    /\ sa_all_issues = <<>>
    /\ sa_output = NoValue

DispatchFrame ==
    UNCHANGED <<sessionVars, config_file, pc, localVars, stop_reason, outputVars,
                cmp_ai_issues, cmp_static_issues, cmp_output, hcVars, prVars,
                sa_analyzers>>

\* lines 105-107: no analyzer is available
NoAnalyzers ==
    /\ pc = "Dispatching"
    /\ ~sa_output.called
    /\ sa_analyzers = <<>>
    /\ sa_output' = [called |-> TRUE, raised |-> FALSE, value |-> <<>>]
    /\ DispatchFrame
    /\ UNCHANGED <<sa_futures, sa_collected, sa_all_issues>>

\* lines 113-115: executor.submit of the next analyzer; the pool of 3 has a
\* free worker, which starts on it
Submit ==
    /\ pc = "Dispatching"
    /\ Len(sa_futures) < Len(sa_analyzers)
    /\ sa_futures' = Append(sa_futures, [done |-> FALSE, result |-> <<>>])
    /\ DispatchFrame
    /\ UNCHANGED <<sa_collected, sa_all_issues, sa_output>>

\* a worker thread finishes _run_analyzer_safely and sets its future
WorkerFinishes(i) ==
    /\ pc = "Dispatching"
    /\ i \in 1..Len(sa_futures)
    /\ ~sa_futures[i].done
    /\ sa_futures' = [sa_futures EXCEPT
                          ![i] = [done   |-> TRUE,
                                  result |-> _run_analyzer_safely(sa_analyzers[i].run)]]
    /\ DispatchFrame
    /\ UNCHANGED <<sa_collected, sa_all_issues, sa_output>>

\* the future the collection loop of lines 118-125 waits for
Awaited == Len(sa_collected) + 1

Collecting ==
    /\ pc = "Dispatching"
    /\ Len(sa_futures) = Len(sa_analyzers)
    /\ Awaited <= Len(sa_futures)

\* lines 120-121: future.result returns the worker's list
CollectResult ==
    /\ Collecting
    /\ sa_futures[Awaited].done
    /\ sa_all_issues' = sa_all_issues \o sa_futures[Awaited].result
    /\ sa_collected' = Append(sa_collected, "result")
    /\ DispatchFrame
    /\ UNCHANGED <<sa_futures, sa_output>>

\* lines 122-123: runner.timeout elapses before the worker has finished
CollectTimeout ==
    /\ Collecting
    /\ ~sa_futures[Awaited].done
    /\ sa_collected' = Append(sa_collected, "timeout")
    /\ DispatchFrame
    /\ UNCHANGED <<sa_futures, sa_all_issues, sa_output>>

\* leaving the with block joins the workers (shutdown(wait=True)); then lines
\* 134-142
JoinAndReturn ==
    /\ pc = "Dispatching"
    /\ ~sa_output.called
    /\ sa_analyzers # <<>>
    /\ Len(sa_collected) = Len(sa_analyzers)
    /\ \A i \in 1..Len(sa_futures) : sa_futures[i].done
    /\ sa_output' = [called |-> TRUE, raised |-> FALSE,
                     value  |-> SortByLineTool(_deduplicate_issues(sa_all_issues))]
    /\ DispatchFrame
    /\ UNCHANGED <<sa_futures, sa_collected, sa_all_issues>>

DispatchNext ==
    \/ NoAnalyzers
    \/ Submit
    \/ \E i \in 1..Len(sa_futures) : WorkerFinishes(i)
    \/ CollectResult
    \/ CollectTimeout
    \/ JoinAndReturn

DispatchSpec == DispatchInit /\ [][DispatchNext]_vars

(***************************************************************************)
(* Properties of the round loop                                            *)
(***************************************************************************)

InRound ==
    pc \in {"Analyzing", "Reconciling", "Refactoring", "Reevaluating",
            "Optimizing", "Deciding"}

\* The six stop conditions, read in the state a round leaves when its decision
\* has been taken (pc = "Routing": the round is counted in iteration, its
\* measurements are still in the locals).
HoldsUserStop == user_stop
HoldsMaxIterations == iteration >= max_iterations
HoldsNoIssues == Len(new_issues) = 0
HoldsThreshold ==
    /\ new_score >= min_score_threshold
    /\ high_severity_count <= max_high_severity_issues
    /\ weighted_issue_score < WeightedScoreBar
HoldsStagnation == stagnation_count >= stagnation_threshold(config_file)
HoldsConverged ==
    /\ Len(previous_scores) >= 3
    /\ \A i, j \in (Len(previous_scores) - 2)..Len(previous_scores) :
          previous_scores[i] - previous_scores[j] < convergence_threshold(config_file)

\* C1: at the end of every round the stop reason is the reason of the first of
\* user stop, max iterations, no issues, quality threshold, stagnation,
\* convergence that holds, whatever else holds; the loop goes on to another
\* round exactly when none of the six holds.
StopOrder ==
    /\ pc = "Routing" =>
          /\ (stop_reason.reason = "User requested stop") = HoldsUserStop
          /\ (stop_reason.reason = "Reached maximum iterations") =
                (~HoldsUserStop /\ HoldsMaxIterations)
          /\ (stop_reason.reason = "No issues remaining") =
                (~HoldsUserStop /\ ~HoldsMaxIterations /\ HoldsNoIssues)
          /\ (stop_reason.reason = "Quality threshold reached") =
                (/\ ~HoldsUserStop /\ ~HoldsMaxIterations /\ ~HoldsNoIssues
                 /\ HoldsThreshold)
          /\ (stop_reason.reason = "No improvement for iterations") =
                (/\ ~HoldsUserStop /\ ~HoldsMaxIterations /\ ~HoldsNoIssues
                 /\ ~HoldsThreshold /\ HoldsStagnation)
          /\ (stop_reason.reason = "Quality scores have converged") =
                (/\ ~HoldsUserStop /\ ~HoldsMaxIterations /\ ~HoldsNoIssues
                 /\ ~HoldsThreshold /\ ~HoldsStagnation /\ HoldsConverged)
          /\ continue_ =
                (/\ ~HoldsUserStop /\ ~HoldsMaxIterations /\ ~HoldsNoIssues
                 /\ ~HoldsThreshold /\ ~HoldsStagnation /\ ~HoldsConverged)
    /\ InRound => continue_
    /\ pc = "Terminated" => ~continue_

\* a third round without improvement under a stagnation limit of 3: stagnation
\* and convergence both hold, and stagnation gives the reason
StopOrderWitness ==
    /\ pc = "Routing"
    /\ ~HoldsUserStop /\ ~HoldsMaxIterations /\ ~HoldsNoIssues /\ ~HoldsThreshold
    /\ HoldsStagnation
    /\ HoldsConverged
    /\ stop_reason.reason = "No improvement for iterations"

\* C2: with max_iterations = N and no user stop a run never executes more than
\* N rounds, and the N-th round stops the run with the reason "Reached maximum
\* iterations" whatever the score, the issue count, stagnation or convergence;
\* with N = 1 the run ends after exactly one round with that reason.
MaxIterationsBound ==
    /\ iteration <= max_iterations
    /\ Len(history) = iteration
    /\ InRound => iteration < max_iterations
    /\ pc = "Terminated" => iteration >= 1
    /\ (~user_stop /\ iteration = max_iterations) =>
          /\ pc \in {"Routing", "Terminated"}
          /\ ~continue_
          /\ stop_reason.reason = "Reached maximum iterations"
          /\ stop_reason.detail = <<max_iterations>>

\* the second and last round found no issue left and a passing score: the
\* reason is still the iteration bound
MaxIterationsWitness ==
    /\ pc = "Routing"
    /\ ~user_stop
    /\ max_iterations = 2
    /\ iteration = 2
    /\ HoldsNoIssues
    /\ HoldsThreshold
    /\ stop_reason.reason = "Reached maximum iterations"

\* C3: if no collaborator call fails to return a value, the run reaches
\* Terminated; the round that decides to stop is followed by no other round,
\* and once Terminated the run stays there with its session state unchanged.
Termination ==
    /\ ([](pc # "Raised")) => <>(pc = "Terminated")
    /\ [][(pc = "Routing" /\ ~continue_) => pc' = "Terminated"]_vars
    /\ [][pc = "Terminated" => (pc' = "Terminated" /\ UNCHANGED sessionVars)]_vars

\* a run that ended after more than one round and has handed back its results
TerminationWitness ==
    /\ pc = "Terminated"
    /\ results.status = "returned"
    /\ iteration >= 2

\* C4: the best-so-far score of the session state never decreases from one
\* step of the run to the next, hence from round to round and from the initial
\* best score.
BestScoreMonotone == [][best_score' >= best_score]_vars

\* a later round scored below a best score that an earlier round had raised
BestScoreWitness ==
    /\ pc = "Routing"
    /\ iteration >= 2
    /\ best_score > InitialScore
    /\ new_score < best_score

\* C5: the round's decision replaces best code, score and issues by the
\* round's code, score and outstanding issues exactly when the round's score
\* is above the best score, or equal to it with fewer outstanding issues;
\* otherwise, and in every other step, the three are left as they are.
BestReplacedIff ==
    [][IF pc = "Deciding"
          /\ \/ new_score > best_score
             \/ (new_score = best_score /\ Len(new_issues) < Len(best_issues))
       THEN /\ best_code' = final_code
            /\ best_score' = new_score
            /\ best_issues' = new_issues
       ELSE UNCHANGED <<best_code, best_score, best_issues>>]_vars

\* round 1 tied the initial best score with fewer issues and became the best
BestReplacedWitness ==
    /\ pc = "Routing"
    /\ iteration = 1
    /\ new_score = InitialScore
    /\ Len(new_issues) < Len(InitialRefinedIssues)
    /\ best_code = final_code
    /\ best_issues = new_issues

\* C6: the output of a terminated run holds the best-so-far code, the history
\* and the stop reason of the condition that ended the run.
OutputHasStopReason ==
    results.status = "returned" =>
        /\ results.final_code = best_code
        /\ results.analysis_summary.final_state.history = history
        /\ \/ "stop_reason" \in DOMAIN results
           \/ "stop_reason" \in DOMAIN results.analysis_summary
           \/ "stop_reason" \in DOMAIN results.analysis_summary.final_state

FallbackRound ==
    /\ pc = "Deciding"
    /\ refined_issues # <<>>
    /\ IsBlank(refactor_returned)

\* C7 as stated: in a round with reconciled issues in which the transformer
\* returned an empty result, the code the round produces equals the code it
\* received.
FallbackKeepsInput == FallbackRound => final_code = code

\* C7: in a round with reconciled issues in which the transformer's fix
\* returned an empty result, the candidate that is re-evaluated equals the
\* round's input code, and so does the code the round produces unless the
\* optimization sub-pass of that round obtained suggestions and applied them.
FallbackKeepsInputUnlessOptimized ==
    FallbackRound =>
        /\ refactored_code = code
        /\ \/ final_code = code
           \/ (optimization_suggestions # <<>> /\ optimization_applied)

\* the fix returned an empty string, the optimization sub-pass ran and its
\* transformer call came back empty too: the round hands on its input
FallbackWitness ==
    /\ FallbackRound
    /\ ~refactor_returned.is_none
    /\ optimization_suggestions # <<>>
    /\ final_code = code

\* C8: no collaborator failure aborts a run: nothing is raised out of the
\* graph and the caller never receives None.
NeverAborts == pc # "Raised" /\ results.status # "failed"

\* the documented default weights and multipliers, in tenths
DocumentedWeight(category) ==
    CASE category = "security"    -> 20
      [] category = "bug"         -> 15
      [] category = "performance" -> 12
      [] category = "style"       -> 8
      [] OTHER                    -> 10

DocumentedMultiplier(severity) ==
    CASE severity = "critical" -> 20
      [] severity = "high"     -> 15
      [] severity = "low"      -> 5
      [] OTHER                 -> 10

RECURSIVE DocumentedScore(_)
DocumentedScore(issues) ==
    IF issues = <<>> THEN 0
    ELSE DocumentedWeight(Get(Head(issues), "category", "general"))
            * DocumentedMultiplier(Get(Head(issues), "severity", "medium"))
         + DocumentedScore(Tail(issues))

\* the round has computed its weighted issue score
Scored == pc \in {"Refactoring", "Reevaluating", "Optimizing", "Deciding", "Routing"}

\* C13: whenever the configuration supplies no category weights, the weighted
\* issue score of the round is the sum over its issues of documented category
\* weight times documented severity multiplier (in hundredths).
WeightedScoreDocumented ==
    (Scored /\ "issue_weights" \notin DOMAIN analysis_config(config_file)) =>
        weighted_issue_score = DocumentedScore(refined_issues)

\* C14: for every round N >= 2, the record of round N is marked improved
\* exactly when the score stored in it is strictly greater than the score
\* stored in the record of round N-1.
ImprovedIffRecordScoreRose ==
    \A n \in 2..Len(history) :
        history[n].improved = (history[n].score > history[n - 1].score)

\* C15: the optimization suggester is invoked in at most one round of a run: a
\* round that is about to invoke it follows no round whose record counts
\* suggestions the suggester returned.
SuggesterInvokedOnce ==
    pc = "Optimizing" =>
        \A n \in 1..Len(history) : history[n].optimization_suggestions_count = 0

\* C16: when the transformer returned nothing usable for the round's issues
\* and the round hands on the code it was given, the record appended for the
\* round reports zero issues fixed.
NoOpFixesNothing ==
    (/\ pc = "Routing"
     /\ refined_issues # <<>>
     /\ IsBlank(refactor_returned)
     /\ final_code = refactored_code) =>
        history[Len(history)].issues_fixed = 0

\* the three gate conditions that are measured in the round: high-severity
\* count within the maximum, outstanding issues at most half of the round's
\* issues, score at least 75
GateMeasuresHold ==
    /\ high_severity_count <= max_high_severity_issues
    /\ 2 * Len(new_issues) <= Len(refined_issues)
    /\ new_score >= 750

\* C20: a round enters the optimization sub-pass only when no optimization
\* has been applied in the run and the three measured gate conditions hold;
\* the applied flag, once set, stays set; and the sub-pass replaces the
\* round's code only in the step that sets the flag, hence in at most one
\* round of a run.
OptimizationGated ==
    /\ [](pc = "Optimizing" => (~optimization_applied /\ GateMeasuresHold))
    /\ [][optimization_applied => optimization_applied']_vars
    /\ [][(pc = "Optimizing" /\ pc' = "Deciding" /\ final_code' # refactored_code)
             => (~optimization_applied /\ optimization_applied')]_vars
    /\ [][pc # "Optimizing" => optimization_applied' = optimization_applied]_vars

\* a later round of a run that has applied an optimization: the measured
\* conditions hold again and the round keeps its refactored code
OptimizationGatedWitness ==
    /\ pc = "Routing"
    /\ iteration >= 2
    /\ history[1].optimization_applied
    /\ optimization_applied
    /\ GateMeasuresHold
    /\ refined_issues # <<>>
    /\ final_code = refactored_code
    /\ optimization_suggestions = <<>>

(***************************************************************************)
(* Properties of cancellation                                              *)
(***************************************************************************)

\* the phases of a round follow one another as written; a collaborator's
\* exception is the only other way out of a phase
PhaseFollows ==
    /\ pc = "Analyzing"    => pc' \in {"Reconciling", "Raised"}
    /\ pc = "Reconciling"  => pc' \in {"Refactoring", "Raised"}
    /\ pc = "Refactoring"  => pc' \in {"Reevaluating", "Raised"}
    /\ pc = "Reevaluating" => pc' \in {"Optimizing", "Deciding", "Raised"}
    /\ pc = "Optimizing"   => pc' \in {"Deciding", "Raised"}
    /\ pc = "Deciding"     => pc' = "Routing"
    /\ pc = "Routing"      => pc' = "Terminated"

\* the round boundary of a run whose stop flag is set: the best-so-far update
\* and the round record are made, and the run stops for the user's request
StoppedAtBoundary ==
    (pc = "Deciding" /\ pc' = "Routing") =>
        /\ history' = Append(history, iteration_record)
        /\ best_score' = (IF IsNewBest THEN new_score ELSE best_score)
        /\ best_code' = (IF IsNewBest THEN final_code ELSE best_code)
        /\ stop_reason' = ReasonUserStop
        /\ ~continue_'

\* C23: cancellation is cooperative.  In a run started with the stop flag set
\* the flag interrupts no phase of the round: the phases follow one another
\* up to the round boundary, before the boundary no stop has been decided,
\* at the boundary the record is appended and the run stops with "User
\* requested stop", and the run that ends has executed exactly one round.
CooperativeStop ==
    /\ [](user_stop /\ InRound => iteration = 0 /\ history = <<>> /\ stop_reason = NoStop)
    /\ [](user_stop /\ pc \in {"Routing", "Terminated"} =>
             /\ iteration = 1
             /\ Len(history) = 1
             /\ Len(previous_scores) = 1
             /\ stop_reason = ReasonUserStop
             /\ ~continue_)
    /\ [](user_stop /\ results.status = "returned" => results.iterations_performed = 1)
    /\ [][user_stop /\ pc' # pc => PhaseFollows /\ StoppedAtBoundary]_vars

CooperativeStopWitness ==
    /\ user_stop
    /\ max_iterations > 1
    /\ results.status = "returned"
    /\ stop_reason = ReasonUserStop
    /\ optimization_applied
    /\ Len(history) = 1
    /\ history[1].issue_count > 0

(***************************************************************************)
(* Properties of the run history                                           *)
(***************************************************************************)

\* t is s with one element appended
OneAppended(s, t) == Len(t) = Len(s) + 1 /\ SubSeq(t, 1, Len(s)) = s

\* between rounds: before the first phase of a round, after its last
BetweenRounds == pc \in {"Analyzing", "Routing", "Terminated"}

\* C25: the history is append-only and in step with the round counter.  It
\* always holds exactly `iteration` records, numbered 1, 2, ... in order; the
\* score history holds as many scores between rounds; each round appends
\* exactly one record and one score and leaves the earlier ones as they were.
HistoryInStep ==
    /\ [](/\ Len(history) = iteration
          /\ \A k \in 1..Len(history) : history[k].iteration = k)
    /\ [](BetweenRounds => Len(previous_scores) = iteration)
    /\ [][IF pc = "Deciding" /\ pc' = "Routing"
          THEN OneAppended(history, history') /\ iteration' = iteration + 1
          ELSE history' = history /\ iteration' = iteration]_vars
    /\ [][IF pc = "Reconciling" /\ pc' = "Refactoring"
          THEN OneAppended(previous_scores, previous_scores')
          ELSE previous_scores' = previous_scores]_vars

\* three rounds completed, with unlike records
HistoryInStepWitness ==
    /\ pc = "Terminated"
    /\ iteration = 3
    /\ Len(history) = 3
    /\ Len(previous_scores) = 3
    /\ history[1].score # history[2].score
    /\ history[2].issue_count # history[3].issue_count

(***************************************************************************)
(* Properties of the weighted outstanding score                            *)
(***************************************************************************)

\* the weighted score of the issues the re-evaluation of this round reported
OutstandingWeight == calculate_weighted_issue_score(new_issues, issue_weights(config_file))

\* C26: the weighted score a round records and tests in the quality-threshold
\* stop is the weighted score of the issues outstanding after the round's fix
\* and re-evaluation: a record with 0 outstanding issues has weighted score
\* 0, and no run stops with "Quality threshold reached" while the outstanding
\* issues weigh 1.0 or more.
WeightedScoreOfOutstanding ==
    /\ \A k \in 1..Len(history) :
          history[k].issue_count = 0 => history[k].weighted_issue_score = 0
    /\ pc = "Routing" =>
          /\ history[Len(history)].weighted_issue_score = OutstandingWeight
          /\ stop_reason.reason = "Quality threshold reached" =>
                OutstandingWeight < WeightedScoreBar

(***************************************************************************)
(* Properties of the best-so-far triple                                    *)
(***************************************************************************)

\* C27: whenever a round updates the best-so-far triple, the best score and
\* the best issues are what the quality analyzer returned for exactly the code
\* stored as the best code (the round's re-evaluated candidate), also in a
\* round whose optimization sub-pass replaced the round's code.
BestTripleMeasuredOnBestCode ==
    [][(pc = "Deciding" /\ pc' = "Routing" /\ IsNewBest) =>
          /\ best_score' = new_score
          /\ best_issues' = new_issues
          /\ best_code' = refactored_code]_vars

(***************************************************************************)
(* Properties of a failed re-evaluation                                    *)
(***************************************************************************)

\* the re-evaluation of this round returned run_quality_agent's failure
\* result (no successful reply of ReevaluateReplies has score 0)
ReevaluationFailed ==
    /\ new_score = QualityFailureResult.score
    /\ new_issues = QualityFailureResult.issues

\* C28: a re-evaluation in which the analyzer call failed is never counted as
\* zero outstanding issues: the round does not stop with "No issues
\* remaining" and its outstanding issues are the prior issue list.
NoIssuesOnlyWhenEvaluated ==
    (pc = "Routing" /\ ReevaluationFailed) =>
        /\ stop_reason # ReasonNoIssues
        /\ history[Len(history)].issue_count = Len(refined_issues)

(***************************************************************************)
(* Properties of stagnation                                                *)
(***************************************************************************)

\* round k had a preceding round and did not strictly exceed its score
FailedToImprove(k) == k > 1 /\ previous_scores[k] <= previous_scores[k - 1]

StoppedForStagnation ==
    pc = "Routing" /\ stop_reason = ReasonStagnation(stagnation_threshold(config_file))

\* C29: a run stops for stagnation with limit L only after L consecutive
\* rounds each of which had a preceding round and failed to strictly exceed
\* its score; the first round does not count.  With limit 2 no run stops for
\* stagnation before its third round.
StagnationNeedsPredecessor ==
    StoppedForStagnation =>
        /\ iteration > stagnation_threshold(config_file)
        /\ \A k \in (iteration - stagnation_threshold(config_file) + 1)..iteration :
              FailedToImprove(k)

(***************************************************************************)
(* Properties of the high-severity gate                                    *)
(***************************************************************************)

\* the re-evaluation of this round reported an issue of severity critical
CriticalOutstanding ==
    \E i \in 1..Len(new_issues) : Get(new_issues[i], "severity", "") = "critical"

\* C30: critical issues count toward the high-severity gate.  With
\* max_high_severity_issues = 0, a round whose re-evaluation reports a
\* critical issue neither runs the optimization sub-pass nor stops with
\* "Quality threshold reached".
CriticalCountsAsHighSeverity ==
    (max_high_severity_issues = 0 /\ CriticalOutstanding) =>
        /\ pc # "Optimizing"
        /\ pc = "Routing" => stop_reason.reason # "Quality threshold reached"

(***************************************************************************)
(* Properties of the reconciler                                            *)
(***************************************************************************)

\* the findings of the two analyzers in standard format, in input order
FindingsA ==
    [i \in 1..Len(Get(cmp_ai_issues, "issues", <<>>)) |->
        ProcessAIIssue(cmp_ai_issues.issues[i])]
FindingsB ==
    [j \in 1..Len(cmp_static_issues) |-> ProcessStaticIssue(cmp_static_issues[j])]

\* pairs <<i, j>> in which no finding of A and no finding of B occurs twice
Pairings ==
    {M \in SUBSET ((1..Len(Get(cmp_ai_issues, "issues", <<>>))) \X (1..Len(cmp_static_issues))) :
        \A p, q \in M : (p[1] = q[1]) = (p[2] = q[2])}

\* the list in which the pairs of M are the merged issues: every finding of A
\* in its place, alone or merged with its partner, then every finding of B
\* that has no partner
Unpaired(M) ==
    SelectSeq([j \in 1..Len(cmp_static_issues) |-> j], LAMBDA j : ~\E p \in M : p[2] = j)

AccountedOf(M, A, B, unpaired) ==
    [i \in 1..Len(A) |->
        IF \E p \in M : p[1] = i
        THEN merge_similar_issues(A[i], B[(CHOOSE p \in M : p[1] = i)[2]])
        ELSE A[i]]
    \o [n \in 1..Len(unpaired) |-> B[unpaired[n]]]

Accounted(M) == AccountedOf(M, FindingsA, FindingsB, Unpaired(M))

Occurrences(seq, x) == Cardinality({k \in 1..Len(seq) : seq[k] = x})

SameFindings(s, t) ==
    /\ Len(s) = Len(t)
    /\ \A k \in 1..Len(s) : Occurrences(s, s[k]) = Occurrences(t, s[k])

\* C9: the list compare_issues builds holds every finding of A and of B once,
\* alone or as one of the two constituents (one of A, one of B) of one merged
\* issue; its length is |A| + |B| - merged pairs, never below max(|A|, |B|);
\* the list returned is that list reordered.
NoFindingLost ==
    cmp_output.called =>
        /\ \E M \in Pairings :
              /\ Cardinality(M) =
                    Cardinality({k \in 1..Len(cmp_output.merged) :
                                    cmp_output.merged[k].source = "Both"})
              /\ Len(cmp_output.merged) = Len(FindingsA) + Len(FindingsB) - Cardinality(M)
              /\ cmp_output.merged = Accounted(M)
        /\ Len(cmp_output.merged) >= Len(FindingsA)
        /\ Len(cmp_output.merged) >= Len(FindingsB)
        /\ ~cmp_output.raised => SameFindings(cmp_output.issues, cmp_output.merged)

\* two findings each, one pair merged: three issues come back, one from each
\* source alone and one from both
NoFindingLostWitness ==
    /\ cmp_output.called
    /\ ~cmp_output.raised
    /\ Len(FindingsA) = 2
    /\ Len(FindingsB) = 2
    /\ Len(cmp_output.issues) = 3
    /\ \E k \in 1..3 : cmp_output.issues[k].source = "Both"
    /\ \E k \in 1..3 : cmp_output.issues[k].source = "AI"
    /\ \E k \in 1..3 : cmp_output.issues[k].source = "Static"

\* critical > high > medium > low
MoreSevereOrEqual(s1, s2) == severity_order[s1] <= severity_order[s2]

\* C10: a merged issue whose two constituents carry severities of the fixed
\* order has the more severe of the two: at least as severe as both, and one
\* of the two.
MergeKeepsMoreSevere ==
    cmp_output.called =>
        \A k \in 1..Len(FindingsA) :
            cmp_output.merged[k].source = "Both" =>
                \E j \in 1..Len(FindingsB) :
                    /\ are_issues_similar(FindingsA[k], FindingsB[j])
                    /\ cmp_output.merged[k].line = FindingsB[j].line
                    /\ ({FindingsA[k].severity, FindingsB[j].severity} \subseteq ValidSeverities =>
                          /\ MoreSevereOrEqual(cmp_output.merged[k].severity,
                                               FindingsA[k].severity)
                          /\ MoreSevereOrEqual(cmp_output.merged[k].severity,
                                               FindingsB[j].severity)
                          /\ cmp_output.merged[k].severity
                                \in {FindingsA[k].severity, FindingsB[j].severity})

\* a low finding of the LLM analyzer merged with a high finding of a static
\* tool comes out high
MergeKeepsMoreSevereWitness ==
    /\ cmp_output.called
    /\ \E k \in 1..Len(FindingsA) :
          /\ cmp_output.merged[k].source = "Both"
          /\ FindingsA[k].severity = "low"
          /\ cmp_output.merged[k].severity = "high"


\* rank of a severity in the order critical, high, medium, low
SeverityRank(issue) ==
    CASE issue.severity = "critical" -> 0
      [] issue.severity = "high"     -> 1
      [] issue.severity = "medium"   -> 2
      [] issue.severity = "low"      -> 3

SameRankAndLine(x, y) == SeverityRank(x) = SeverityRank(y) /\ x.line = y.line

NotAfter(x, y) ==
    \/ SeverityRank(x) < SeverityRank(y)
    \/ (SeverityRank(x) = SeverityRank(y) /\ x.line <= y.line)

\* the issues of seq that have the rank and line of x, in the order of seq
WithRankAndLineOf(seq, x) == SelectSeq(seq, LAMBDA y : SameRankAndLine(x, y))

\* C11: the list compare_issues returns is the list it built (LLM issues in
\* input order, then the unmatched static issues in input order) ordered by
\* severity rank, then by ascending line; issues equal in both keep the order
\* in which they were built.  This fixes the output as a function of the input.
OutputOrdered ==
    (cmp_output.called /\ ~cmp_output.raised) =>
        /\ Len(cmp_output.issues) = Len(cmp_output.merged)
        /\ \A k \in 1..(Len(cmp_output.issues) - 1) :
              NotAfter(cmp_output.issues[k], cmp_output.issues[k + 1])
        /\ \A k \in 1..Len(cmp_output.merged) :
              WithRankAndLineOf(cmp_output.issues, cmp_output.merged[k]) =
                  WithRankAndLineOf(cmp_output.merged, cmp_output.merged[k])

\* the sort moved a low issue behind two different high issues of one line,
\* which kept their order
OutputOrderedWitness ==
    /\ cmp_output.called
    /\ ~cmp_output.raised
    /\ Len(cmp_output.issues) = 3
    /\ cmp_output.merged[1].severity = "low"
    /\ cmp_output.issues[3] = cmp_output.merged[1]
    /\ SameRankAndLine(cmp_output.issues[1], cmp_output.issues[2])
    /\ cmp_output.issues[1] # cmp_output.issues[2]
    /\ cmp_output.issues[1] = cmp_output.merged[2]


(***************************************************************************)
(* Properties of has_converged                                             *)
(***************************************************************************)

\* [80, 81, 80.5, 80.2] and [50, 70, 90]
FlatHistory == <<800, 810, 805, 802>>
SteepHistory == <<500, 700, 900>>

IsPrefix(s, t) == Len(s) <= Len(t) /\ s = SubSeq(t, 1, Len(s))

\* C12: has_converged is true exactly when the history has at least 3 scores
\* and no two of its last 3 differ by the threshold or more; it is false for a
\* history shorter than 3; with threshold 2.0 it is true for the prefixes of
\* length 3 and 4 of [80, 81, 80.5, 80.2] and false for [50, 70, 90].
ConvergedIff ==
    hc_output.called =>
        /\ hc_output.value =
              (/\ Len(hc_scores) >= 3
               /\ \A i, j \in (Len(hc_scores) - 2)..Len(hc_scores) :
                     hc_scores[i] - hc_scores[j] < hc_threshold)
        /\ Len(hc_scores) < 3 => ~hc_output.value
        /\ (hc_threshold = 20 /\ Len(hc_scores) >= 3 /\ IsPrefix(hc_scores, FlatHistory))
              => hc_output.value
        /\ (hc_threshold = 20 /\ hc_scores = SteepHistory) => ~hc_output.value

\* the whole of [80, 81, 80.5, 80.2] under the default threshold
ConvergedWitness ==
    /\ hc_output.called
    /\ hc_threshold = 20
    /\ hc_scores = FlatHistory
    /\ hc_output.value


IssueFields ==
    {"line", "description", "suggestion", "severity", "confidence", "category", "source"}

\* C17: compare_issues returns normally for findings with missing fields or
\* with a severity outside critical, high, medium, low, and every issue of
\* its output has all seven fields.
ReconcilerNeverRaises ==
    cmp_output.called =>
        /\ ~cmp_output.raised
        /\ Len(cmp_output.issues) = Len(cmp_output.merged)
        /\ \A k \in 1..Len(cmp_output.issues) :
              IssueFields \subseteq DOMAIN cmp_output.issues[k]


(***************************************************************************)
(* Properties of the priority adjustment                                   *)
(***************************************************************************)

WithoutPriority(issue) == [k \in DOMAIN issue \ {"priority"} |-> issue[k]]

WithoutPriorities(issues) == [i \in 1..Len(issues) |-> WithoutPriority(issues[i])]

\* the lists the critic can have handed to prioritize_issues in this round
CriticOutputs ==
    {run_critic_agent(compare_issues(quality_results, static_results).issues, creply) :
        creply \in CriticReplies}

\* C18: the refined issues a round works on are the issues the critic
\* returned, reordered: the priority adjustment deletes none of them, whatever
\* the user rejected.
PrioritizeKeepsAll ==
    [][(pc = "Reconciling" /\ pc' = "Refactoring") =>
          \E given \in CriticOutputs :
              SameFindings(WithoutPriorities(refined_issues'), WithoutPriorities(given))]_vars

\* position of an issue's severity in the order critical > high > medium > low
\* (0 is the most severe); an issue without a severity is a medium one
SeverityPosition(issue) ==
    CASE Get(issue, "severity", "medium") = "critical" -> 0
      [] Get(issue, "severity", "medium") = "high"     -> 1
      [] Get(issue, "severity", "medium") = "medium"   -> 2
      [] Get(issue, "severity", "medium") = "low"      -> 3

\* C21: in the list prioritize_issues returns, no issue is preceded by an
\* issue of strictly lower severity under critical > high > medium > low.
MostSevereFirst ==
    pr_output.called =>
        \A i, j \in 1..Len(pr_output.value) :
            i < j => SeverityPosition(pr_output.value[i]) <= SeverityPosition(pr_output.value[j])


(***************************************************************************)
(* Properties of the reconciler's matching                                 *)
(***************************************************************************)

NormalizedDescription(issue) == Lower(Strip(issue.description))

\* the similarity of two normalized descriptions is at least 0.8
DescriptionsClose(a, b) ==
    \/ a = b
    \/ 10 * SequenceMatcherRatio(a, b)[1] >= 8 * SequenceMatcherRatio(a, b)[2]

\* the test of the claim: equal lines and close normalized descriptions
SameFinding(x, y) ==
    /\ x.line = y.line
    /\ DescriptionsClose(NormalizedDescription(x), NormalizedDescription(y))

\* C19: the list compare_issues builds comes from a pairing of findings of A
\* (LLM) with findings of B (static) in which every pair has equal lines and
\* descriptions whose normalized similarity is at least 0.8, nothing else is
\* merged, and a finding of A stays alone only if every finding of B that
\* passes this test with it is paired with an earlier finding of A.
MergesOnlySameFindings ==
    cmp_output.called =>
        \E M \in Pairings :
            /\ \A p \in M : cmp_output.merged[p[1]].source = "Both"
            /\ cmp_output.merged = Accounted(M)
            /\ \A p \in M : SameFinding(FindingsA[p[1]], FindingsB[p[2]])
            /\ \A i \in 1..Len(FindingsA) :
                  (~\E p \in M : p[1] = i) =>
                      \A j \in 1..Len(FindingsB) :
                          SameFinding(FindingsA[i], FindingsB[j]) =>
                              \E p \in M : p[2] = j /\ p[1] < i

\* two equal LLM findings and one static finding close to both: the first
\* merges, the second stays alone
MergesOnlySameFindingsWitness ==
    /\ cmp_output.called
    /\ Len(FindingsA) = 2
    /\ Len(FindingsB) = 1
    /\ cmp_output.merged[1].source = "Both"
    /\ cmp_output.merged[2].source = "AI"
    /\ SameFinding(FindingsA[2], FindingsB[1])


(***************************************************************************)
(* Properties of the reconciler's normalization                            *)
(***************************************************************************)

\* the raw findings given to compare_issues: the LLM's, then the static tools'
RawFindings == Get(cmp_ai_issues, "issues", <<>>) \o cmp_static_issues

\* the description names a security keyword
SecurityLanguage(description) ==
    \E kw \in security_keywords : Contains(Lower(description), kw)

\* the call merged no pair: the list it built holds the findings one by one,
\* in the order of RawFindings
NothingMerged ==
    /\ cmp_output.called
    /\ Len(cmp_output.merged) = Len(RawFindings)
    /\ \A k \in 1..Len(cmp_output.merged) : cmp_output.merged[k].source # "Both"

\* C22: a raw finding that supplies no severity is normalized to severity
\* medium, unless its description contains security-indicating language, in
\* which case it is normalized to severity high.
DefaultSeverityBySecurityLanguage ==
    NothingMerged =>
        \A k \in 1..Len(RawFindings) :
            "severity" \notin DOMAIN RawFindings[k] =>
                cmp_output.merged[k].severity =
                    IF SecurityLanguage(Get(RawFindings[k], "issue", <<>>))
                    THEN "high"
                    ELSE "medium"


(***************************************************************************)
(* Properties of the static-analysis dispatcher                            *)
(***************************************************************************)

\* the tools whose result the collection loop received in time
CompletedInTime == {i \in 1..Len(sa_collected) : sa_collected[i] = "result"}

\* the issues those tools reported, each named by <<tool index, position>>;
\* a tool whose analyzer function raised reported none
Contributions ==
    UNION {{<<i, k>> : k \in 1..Len(sa_analyzers[i].run.value)} :
              i \in {t \in CompletedInTime : ~sa_analyzers[t].run.raised}}

IssueAt(c) == sa_analyzers[c[1]].run.value[c[2]]

\* submission order of the tools, then the order of a tool's own list
Earlier(c, d) == c[1] < d[1] \/ (c[1] = d[1] /\ c[2] < d[2])

\* line and normalized description: what makes two issues duplicates
SameIssue(x, y) ==
    /\ Get(x, "line", 0) = Get(y, "line", 0)
    /\ Lower(Strip(Get(x, "issue", <<>>))) = Lower(Strip(Get(y, "issue", <<>>)))

\* the contribution an issue of the result stands for: the earliest duplicate
Origin(x) ==
    CHOOSE c \in Contributions :
        /\ SameIssue(IssueAt(c), x)
        /\ \A d \in Contributions : SameIssue(IssueAt(d), x) => (d = c \/ Earlier(c, d))

LineAndTool(x) == <<Get(x, "line", 0), ToolNameOrder(Get(x, "tool", ""))>>

\* C24: whatever the order in which the workers finish and whichever tools
\* time out or fail, run_static_analysis returns without raising, and what it
\* returns is fixed by the reports of the tools that completed in time: their
\* issues without duplicates (of duplicates the earliest in submission order
\* stays), ordered by (line, tool), ties in report order.  A tool that timed
\* out or failed contributes nothing.
DispatchResult ==
    sa_output.called =>
        /\ ~sa_output.raised
        /\ \A n \in 1..Len(sa_output.value) :
              /\ \E c \in Contributions : SameIssue(IssueAt(c), sa_output.value[n])
              /\ sa_output.value[n] = IssueAt(Origin(sa_output.value[n]))
        /\ \A c \in Contributions :
              \E n \in 1..Len(sa_output.value) : SameIssue(IssueAt(c), sa_output.value[n])
        /\ \A m, n \in 1..Len(sa_output.value) :
              m < n =>
                  /\ ~SameIssue(sa_output.value[m], sa_output.value[n])
                  /\ LineAndTool(sa_output.value[m])[1] <= LineAndTool(sa_output.value[n])[1]
                  /\ LineAndTool(sa_output.value[m])[1] = LineAndTool(sa_output.value[n])[1]
                        => LineAndTool(sa_output.value[m])[2] <= LineAndTool(sa_output.value[n])[2]
                  /\ LineAndTool(sa_output.value[m]) = LineAndTool(sa_output.value[n])
                        => Earlier(Origin(sa_output.value[m]), Origin(sa_output.value[n]))

\* pylint reported issues but timed out; bandit's two issues are returned,
\* ordered by line
DispatchResultWitness ==
    /\ sa_output.called
    /\ Len(sa_analyzers) = 2
    /\ sa_collected = <<"timeout", "result">>
    /\ sa_futures[1].result # <<>>
    /\ sa_analyzers[2].run.value = <<BanditStyle, StaticHighBugs>>
    /\ sa_output.value = <<StaticHighBugs, BanditStyle>>

=============================================================================
